---- MODULE Spec2Model ----
(***************************************************************************)
(* A model of gprofiler/gprofiler_types.py: the StackToSampleCount         *)
(* container (collections.Counter), ProfilingErrorStack with its           *)
(* is_error_stack predicate and attach_error_to_stacks, and the            *)
(* configuration value validators.                                         *)
(*                                                                         *)
(* A Python str is modelled as a sequence of one-character strings, so     *)
(* that splitting, concatenation and regular-expression matching are       *)
(* computed character by character.  A Counter is modelled as the sequence *)
(* of its items in insertion order (a dict iterates in insertion order),   *)
(* each item a record [key, count], with pairwise distinct keys.           *)
(*                                                                         *)
(* A call's outcome is a record [kind, value]: kind is "ok" for a normal   *)
(* return (value is what was returned) or the name of the exception that   *)
(* was raised (value is the exception's message, <<>> when it has none).   *)
(***************************************************************************)
EXTENDS Integers, Sequences, FiniteSets, TLC

VARIABLES
    stacks,     \* the caller's source_stacks: a StackToSampleCount
    err,        \* the caller's error_stack: a StackToSampleCount
    call,       \* the last call made: [op, args]
    ret         \* the outcome of the last call: [kind, value]

vars == <<stacks, err, call, ret>>

----------------------------------------------------------------------------
(* Bounds of the model. *)

\* Most items in a container.
MaxEntries == 2

\* Largest count, and largest amount added or assigned, in either direction.
MaxCount == 2

\* Longest raw text token given to a validator.
MaxTokLen == 3

----------------------------------------------------------------------------
(* Strings. *)

NL == "\n"

Ok(v) == [kind |-> "ok", value |-> v]

Raise(exc, msg) == [kind |-> exc, value |-> msg]

None == Ok(<<>>)

\* All sequences over S of length lo..hi.
RECURSIVE StrsOfLen(_, _)
StrsOfLen(S, n) ==
    IF n = 0 THEN {<<>>}
    ELSE {Append(s, c) : s \in StrsOfLen(S, n - 1), c \in S}

Strs(S, lo, hi) == UNION {StrsOfLen(S, n) : n \in lo..hi}

\* The index of the first c in s at or after position i, 0 when there is none.
RECURSIVE Find(_, _, _)
Find(s, c, i) ==
    IF i > Len(s) THEN 0
    ELSE IF s[i] = c THEN i
    ELSE Find(s, c, i + 1)

\* str.split(sep, maxsplit=1): the list of the parts.
SplitOnce(s, sep) ==
    LET i == Find(s, sep, 1) IN
    IF i = 0 THEN <<s>>
    ELSE <<SubSeq(s, 1, i - 1), SubSeq(s, i + 1, Len(s))>>

\* str.split(sep): the list of the parts, in order.
RECURSIVE Split(_, _)
Split(s, sep) ==
    LET i == Find(s, sep, 1) IN
    IF i = 0 THEN <<s>>
    ELSE <<SubSeq(s, 1, i - 1)>> \o Split(SubSeq(s, i + 1, Len(s)), sep)

----------------------------------------------------------------------------
(* Regular expressions, as re.match applies them: the pattern is matched   *)
(* from the start of the string and need not reach its end; "." matches    *)
(* any character except a newline (no DOTALL flag is given).               *)

Lit(c) == [t |-> "lit", c |-> c]
DotStar == [t |-> "dotstar", c |-> ""]
DotPlus == [t |-> "dotplus", c |-> ""]

Lits(s) == [i \in 1..Len(s) |-> Lit(s[i])]

\* The positions the matcher can stand at after element e, from position j.
After(e, s, j) ==
    IF e.t = "lit"
    THEN IF j <= Len(s) /\ s[j] = e.c THEN {j + 1} ELSE {}
    ELSE LET lo == IF e.t = "dotplus" THEN j + 1 ELSE j IN
         {k \in lo..(Len(s) + 1) : \A m \in j..(k - 1) : s[m] # NL}

\* The positions the matcher can stand at after elements i..Len(pat), from P.
RECURSIVE Run(_, _, _, _)
Run(pat, i, s, P) ==
    IF i > Len(pat) \/ P = {} THEN P
    ELSE Run(pat, i + 1, s, UNION {After(pat[i], s, j) : j \in P})

\* pattern.match(s) is not None
Match(pat, s) == Run(pat, 1, s, {1}) # {}

----------------------------------------------------------------------------
(* StackToSampleCount = Counter *)

Item(k, n) == [key |-> k, count |-> n]

\* The index of key k in counter c, 0 when it is missing.
RECURSIVE IndexOf(_, _, _)
IndexOf(c, k, i) ==
    IF i > Len(c) THEN 0
    ELSE IF c[i].key = k THEN i
    ELSE IndexOf(c, k, i + 1)

\* c[k]: a Counter gives 0 for a missing key.
GetItem(c, k) ==
    LET i == IndexOf(c, k, 1) IN IF i = 0 THEN 0 ELSE c[i].count

\* c[k] = n: a present key keeps its place, a new one goes last.
SetItem(c, k, n) ==
    LET i == IndexOf(c, k, 1) IN
    IF i = 0 THEN Append(c, Item(k, n))
    ELSE [c EXCEPT ![i] = Item(k, n)]

\* Update with the amount taken off instead of added.
UpdateSubtracts(c, k, n) == SetItem(c, k, GetItem(c, k) - n)

\* c.update({k: n}): the amount is added to the count, whatever its sign.
Update(c, k, n) == SetItem(c, k, GetItem(c, k) + n)

\* c.update(other): each item of the other counter is added in, in order.
RECURSIVE Merge(_, _)
Merge(c, other) ==
    IF other = <<>> THEN c
    ELSE Merge(Update(c, other[1].key, other[1].count), Tail(other))

----------------------------------------------------------------------------
(* class ProfilingErrorStack(StackToSampleCount) *)

\* The text "[Profiling " of the error frame.
ProfilingText == <<"[", "P", "r", "o", "f", "i", "l", "i", "n", "g", " ">>

\* re.compile(r".*;\[Profiling .+: .+\]")
PROFILING_ERROR_STACK_PATTERN ==
    <<DotStar>> \o Lits(<<";">> \o ProfilingText) \o <<DotPlus>>
        \o Lits(<<":", " ">>) \o <<DotPlus>> \o Lits(<<"]">>)

\* f"{comm};[Profiling {what}: {reason}]"
ErrorKey(what, reason, comm) ==
    comm \o <<";">> \o ProfilingText \o what \o <<":", " ">> \o reason \o <<"]">>

\* len(stack) == 1 and PATTERN.match(next(iter(stack))) is not None
is_error_stack(stack) ==
    Len(stack) = 1 /\ Match(PROFILING_ERROR_STACK_PATTERN, stack[1].key)

\* __init__: the empty Counter, updated with the one key, then the assertion.
ProfilingErrorStack(what, reason, comm) ==
    LET self == Update(<<>>, ErrorKey(what, reason, comm), 1) IN
    IF is_error_stack(self) THEN Ok(self) ELSE Raise("AssertionError", <<>>)

\* Annotated with the rest of the stack left out.
AnnotatedDropsStack(comm, error_frame, stack) == comm \o <<";">> \o error_frame

\* f"{comm};{error_frame};{stack}"
Annotated(comm, error_frame, stack) ==
    comm \o <<";">> \o error_frame \o <<";">> \o stack

\* AttachLoop passing over a key with no ";" instead of raising.
RECURSIVE AttachLoopSkipsMalformed(_, _, _, _)
AttachLoopSkipsMalformed(source_stacks, i, error_frame, dest_stacks) ==
    IF i > Len(source_stacks) THEN Ok(dest_stacks)
    ELSE LET parts == SplitOnce(source_stacks[i].key, ";") IN
         IF Len(parts) # 2
         THEN AttachLoopSkipsMalformed(source_stacks, i + 1, error_frame,
                                       dest_stacks)
         ELSE AttachLoopSkipsMalformed(source_stacks, i + 1, error_frame,
                  SetItem(dest_stacks,
                          parts[1] \o <<";">> \o error_frame \o <<";">>
                              \o parts[2],
                          source_stacks[i].count))

\* The loop over source_stacks.items(), from item i on, dest_stacks so far:
\* unpacking a split that gave one part raises ValueError.
RECURSIVE AttachLoop(_, _, _, _)
AttachLoop(source_stacks, i, error_frame, dest_stacks) ==
    IF i > Len(source_stacks) THEN Ok(dest_stacks)
    ELSE LET parts == SplitOnce(source_stacks[i].key, ";") IN
         IF Len(parts) # 2 THEN Raise("ValueError", <<>>)
         ELSE AttachLoop(source_stacks, i + 1, error_frame,
                  SetItem(dest_stacks,
                          Annotated(parts[1], error_frame, parts[2]),
                          source_stacks[i].count))

\* attach_error_to_stacks inserting the whole key of the error stack, its
\* command name included.
AttachKeepsErrorComm(source_stacks, error_stack) ==
    IF Len(error_stack) = 0 THEN Raise("StopIteration", <<>>)
    ELSE LET parts == SplitOnce(error_stack[1].key, ";") IN
         IF Len(parts) # 2 THEN Raise("ValueError", <<>>)
         ELSE AttachLoop(source_stacks, 1, error_stack[1].key, <<>>)

\* next(iter(error_stack)) raises StopIteration on an empty container.
attach_error_to_stacks(source_stacks, error_stack) ==
    IF Len(error_stack) = 0 THEN Raise("StopIteration", <<>>)
    ELSE LET parts == SplitOnce(error_stack[1].key, ";") IN
         IF Len(parts) # 2 THEN Raise("ValueError", <<>>)
         ELSE AttachLoop(source_stacks, 1, parts[2], <<>>)

----------------------------------------------------------------------------
(* The configuration value validators. *)

Digits == <<"0", "1", "2", "3", "4", "5", "6", "7", "8", "9">>

IsDigit(c) == \E d \in 1..10 : Digits[d] = c

DigitValue(c) == (CHOOSE d \in 1..10 : Digits[d] = c) - 1

\* Characters str.strip() removes.
Whitespace == {" ", "\t", NL, "\r", "\f"}

RECURSIVE LStrip(_)
LStrip(s) ==
    IF s # <<>> /\ Head(s) \in Whitespace THEN LStrip(Tail(s)) ELSE s

RECURSIVE RStrip(_)
RStrip(s) ==
    IF s # <<>> /\ s[Len(s)] \in Whitespace
    THEN RStrip(SubSeq(s, 1, Len(s) - 1)) ELSE s

\* The value of a string of digits.
RECURSIVE DigitsValue(_)
DigitsValue(s) ==
    IF s = <<>> THEN 0
    ELSE 10 * DigitsValue(SubSeq(s, 1, Len(s) - 1)) + DigitValue(s[Len(s)])

\* repr(v) of an int.
RECURSIVE NatRepr(_)
NatRepr(v) ==
    IF v < 10 THEN <<Digits[v + 1]>>
    ELSE NatRepr(v \div 10) \o <<Digits[(v % 10) + 1]>>

IntRepr(v) == IF v < 0 THEN <<"-">> \o NatRepr(-v) ELSE NatRepr(v)

\* repr(s) of a str with no quote, backslash or control character in it.
StrRepr(s) == <<"'">> \o s \o <<"'">>

\* repr(l) of a list of such strings.
RECURSIVE ListBody(_)
ListBody(l) ==
    IF l = <<>> THEN <<>>
    ELSE IF Len(l) = 1 THEN StrRepr(l[1])
    ELSE StrRepr(l[1]) \o <<",", " ">> \o ListBody(Tail(l))

ListRepr(l) == <<"[">> \o ListBody(l) \o <<"]">>

InvalidLiteralText ==
    <<"i", "n", "v", "a", "l", "i", "d", " ", "l", "i", "t", "e", "r", "a",
      "l", " ", "f", "o", "r", " ", "i", "n", "t", "(", ")", " ", "w", "i",
      "t", "h", " ", "b", "a", "s", "e", " ", "1", "0", ":", " ">>

\* int(value_str), for text with no "_" in it: surrounding whitespace is
\* dropped, one sign is allowed, and one or more digits must follow;
\* anything else raises ValueError.
int(value_str) ==
    LET t == RStrip(LStrip(value_str))
        signed == t # <<>> /\ Head(t) \in {"-", "+"}
        body == IF signed THEN Tail(t) ELSE t
    IN  IF body = <<>> \/ \E i \in 1..Len(body) : ~IsDigit(body[i])
        THEN Raise("ValueError", InvalidLiteralText \o StrRepr(value_str))
        ELSE Ok(IF signed /\ Head(t) = "-"
                THEN -DigitsValue(body) ELSE DigitsValue(body))

PositiveIntegerText ==
    <<"i", "n", "v", "a", "l", "i", "d", " ", "p", "o", "s", "i", "t", "i",
      "v", "e", " ", "i", "n", "t", "e", "g", "e", "r", " ", "v", "a", "l",
      "u", "e", ":", " ">>

positive_integer(value_str) ==
    LET value == int(value_str) IN
    IF value.kind # "ok" THEN value
    ELSE IF value.value <= 0
    THEN Raise("ArgumentTypeError", PositiveIntegerText \o IntRepr(value.value))
    ELSE Ok(value.value)

NonnegativeIntegerText ==
    <<"i", "n", "v", "a", "l", "i", "d", " ", "n", "o", "n", "-", "n", "e",
      "g", "a", "t", "i", "v", "e", " ", "i", "n", "t", "e", "g", "e", "r",
      " ", "v", "a", "l", "u", "e", ":", " ">>

nonnegative_integer(value_str) ==
    LET value == int(value_str) IN
    IF value.kind # "ok" THEN value
    ELSE IF value.value < 0
    THEN Raise("ArgumentTypeError",
               NonnegativeIntegerText \o IntRepr(value.value))
    ELSE Ok(value.value)

IntegersListText ==
    <<"I", "n", "t", "e", "g", "e", "r", " ", "l", "i", "s", "t", " ", "s",
      "h", "o", "u", "l", "d", " ", "b", "e", " ", "a", " ", "s", "i", "n",
      "g", "l", "e", " ", "i", "n", "t", "e", "g", "e", "r", ",", " ", "o",
      "r", " ", "c", "o", "m", "m", "a", " ", "s", "e", "p", "a", "r", "a",
      "t", "e", "d", " ", "l", "i", "s", "t", " ", "o", "f", " ", "i", "n",
      "t", "e", "g", "e", "r", "s", " ", "f", ".", "e", ".", " ", "1", "3",
      ",", "4", "5", "2", ",", "2", "3", "8", "8">>

\* [int(value) for value in parts]: the values so far, or the ValueError.
RECURSIVE IntAll(_, _)
IntAll(parts, values) ==
    IF parts = <<>> THEN Ok(values)
    ELSE LET v == int(Head(parts)) IN
         IF v.kind # "ok" THEN v
         ELSE IntAll(Tail(parts), Append(values, v.value))

\* integers_list with no except clause: the ValueError gets out.
IntegersListUncaught(value_str) == IntAll(Split(value_str, ","), <<>>)

integers_list(value_str) ==
    LET values == IntAll(Split(value_str, ","), <<>>) IN
    IF values.kind = "ValueError"
    THEN Raise("ArgumentTypeError", IntegersListText)
    ELSE values

InvalidIntegerText ==
    <<"i", "n", "v", "a", "l", "i", "d", " ", "i", "n", "t", "e", "g", "e",
      "r", " ", "v", "a", "l", "u", "e", " ">>

OutOfRangeText ==
    <<" ", "(", "o", "u", "t", " ", "o", "f", " ", "r", "a", "n", "g", "e",
      " ">>

\* integer_range_check with max_range let through.
IntegerRangeCheckInclusive(min_range, max_range, value_str) ==
    LET value == int(value_str) IN
    IF value.kind # "ok" THEN value
    ELSE IF value.value < min_range \/ value.value > max_range
    THEN Raise("ArgumentTypeError",
               InvalidIntegerText \o IntRepr(value.value) \o OutOfRangeText
                   \o IntRepr(min_range) \o <<"-">> \o IntRepr(max_range)
                   \o <<")">>)
    ELSE Ok(value.value)

\* The validator integer_range(min_range, max_range) returns, applied.
integer_range_check(min_range, max_range, value_str) ==
    LET value == int(value_str) IN
    IF value.kind # "ok" THEN value
    ELSE IF value.value < min_range \/ value.value >= max_range
    THEN Raise("ArgumentTypeError",
               InvalidIntegerText \o IntRepr(value.value) \o OutOfRangeText
                   \o IntRepr(min_range) \o <<"-">> \o IntRepr(max_range)
                   \o <<")">>)
    ELSE Ok(value.value)

InvalidValueText ==
    <<"i", "n", "v", "a", "l", "i", "d", " ", "v", "a", "l", "u", "e", " ">>

AllowedValuesText ==
    <<" ", "(", "a", "l", "l", "o", "w", "e", "d", " ", "v", "a", "l", "u",
      "e", "s", ":", " ">>

\* The loop over values, from value i on.
RECURSIVE EnumLoop(_, _, _)
EnumLoop(options, values, i) ==
    IF i > Len(values) THEN Ok(values)
    ELSE IF \A o \in 1..Len(options) : options[o] # values[i]
    THEN Raise("ArgumentTypeError",
               InvalidValueText \o StrRepr(values[i]) \o AllowedValuesText
                   \o ListRepr(options) \o <<")">>)
    ELSE EnumLoop(options, values, i + 1)

comma_separated_enum_list(options, value) ==
    EnumLoop(options, Split(value, ","), 1)

----------------------------------------------------------------------------
(* The inputs of the model. *)

\* comm: a plain name, a name holding a ";", a name holding a newline.
Comms == {<<"c">>, <<"a", ";", "b">>, <<NL>>}

\* what: a plain word, a newline.
Whats == {<<"w">>, <<NL>>}

\* reason: a plain word, a text holding a ";".
Reasons == {<<"r">>, <<"r", ";", "s">>}

\* Keys of sampled stacks: "c;f", "d;f;g", "c;" and, with no ";" at all, "c".
SourceKeys ==
    {<<"c", ";", "f">>, <<"d", ";", "f", ";", "g">>, <<"c", ";">>, <<"c">>}

SourceCounts == {1, 2}

\* Whether the keys of counter c are pairwise distinct.
DistinctKeys(c) ==
    \A i, j \in 1..Len(c) : c[i].key = c[j].key => i = j

\* The containers of at most n items over the keys K and the counts N.
Counters(K, N, n) ==
    {c \in Strs({Item(k, m) : k \in K, m \in N}, 0, n) : DistinctKeys(c)}

\* Containers that no ProfilingErrorStack call built: the empty one, real
\* stacks, keys near the pattern, a key with text after the "]", two items.
OtherStacks ==
    LET e == ErrorKey(<<"w">>, <<"r">>, <<"c">>) IN
    { <<>>,
      <<Item(<<"c", ";", "f">>, 1)>>,
      <<Item(<<"c">>, 1)>>,
      <<Item(ErrorKey(<<>>, <<"r">>, <<"c">>), 1)>>,
      <<Item(ErrorKey(<<"w">>, <<>>, <<"c">>), 1)>>,
      <<Item(SubSeq(e, 1, Len(e) - 1), 1)>>,
      <<Item(SubSeq(e, 3, Len(e)), 1)>>,
      <<Item(e \o <<";", "x">>, 3)>>,
      <<Item(e \o <<NL>>, 1)>>,
      <<Item(<<"q", NL, "c">> \o e, 1)>>,
      <<Item(e, 1), Item(<<"c", ";", "f">>, 1)>> }

----------------------------------------------------------------------------
(* The caller: it holds a source container and an error container, and     *)
(* calls the constructor, the predicate and attach_error_to_stacks.        *)

NoCall == [op |-> "none", args |-> <<>>]

Init ==
    /\ stacks \in Counters(SourceKeys, SourceCounts, MaxEntries)
    /\ err \in OtherStacks
    /\ call = NoCall
    /\ ret = None

\* The outcome of ProfilingErrorStack(what, reason, comm) for each input of
\* the model, computed once.
Constructed ==
    {<<a, ProfilingErrorStack(a[1], a[2], a[3])>> : a \in Whats \X Reasons \X Comms}

\* error_stack = ProfilingErrorStack(what, reason, comm)
Construct(what, reason, comm) ==
    LET r == (CHOOSE p \in Constructed : p[1] = <<what, reason, comm>>)[2] IN
    /\ call' = [op |-> "ProfilingErrorStack", args |-> <<what, reason, comm>>]
    /\ ret' = r
    /\ err' = IF r.kind = "ok" THEN r.value ELSE err
    /\ UNCHANGED stacks

\* ProfilingErrorStack.is_error_stack(error_stack)
IsErrorStack ==
    /\ call' = [op |-> "is_error_stack", args |-> <<>>]
    /\ ret' = Ok(is_error_stack(err))
    /\ UNCHANGED <<stacks, err>>

\* ProfilingErrorStack.attach_error_to_stacks(source_stacks, error_stack)
Attach ==
    /\ call' = [op |-> "attach_error_to_stacks", args |-> <<>>]
    /\ ret' = attach_error_to_stacks(stacks, err)
    /\ UNCHANGED <<stacks, err>>

Next ==
    \/ \E what \in Whats, reason \in Reasons, comm \in Comms :
           Construct(what, reason, comm)
    \/ IsErrorStack
    \/ Attach

Spec == Init /\ [][Next]_vars

----------------------------------------------------------------------------
(* The container in use: a caller adds to, assigns and merges counts of a  *)
(* StackToSampleCount, and annotates it with an error stack.               *)

CounterKeys == {<<"c", ";", "f">>, <<"c", ";", "g">>}

Amounts == (-MaxCount)..MaxCount

\* Whether container c stays inside the bounds of the model.
InBounds(c) ==
    /\ Len(c) <= MaxEntries
    /\ \A i \in 1..Len(c) : c[i].count \in Amounts

CounterInit ==
    /\ stacks = <<>>
    /\ err = (ProfilingErrorStack(<<"w">>, <<"r">>, <<"c">>)).value
    /\ call = NoCall
    /\ ret = None

\* stacks.update({k: n}), also written stacks[k] += n
Increment(k, n) ==
    /\ InBounds(Update(stacks, k, n))
    /\ stacks' = Update(stacks, k, n)
    /\ call' = [op |-> "update", args |-> <<k, n>>]
    /\ ret' = None
    /\ UNCHANGED err

\* stacks[k] = n
Assign(k, n) ==
    /\ InBounds(SetItem(stacks, k, n))
    /\ stacks' = SetItem(stacks, k, n)
    /\ call' = [op |-> "setitem", args |-> <<k, n>>]
    /\ ret' = None
    /\ UNCHANGED err

\* stacks.update(other)
MergeIn(other) ==
    /\ InBounds(Merge(stacks, other))
    /\ stacks' = Merge(stacks, other)
    /\ call' = [op |-> "merge", args |-> <<other>>]
    /\ ret' = None
    /\ UNCHANGED err

CounterNext ==
    \/ \E k \in CounterKeys, n \in Amounts : Increment(k, n)
    \/ \E k \in CounterKeys, n \in Amounts : Assign(k, n)
    \/ \E other \in Counters(CounterKeys, Amounts, MaxEntries) : MergeIn(other)
    \/ Attach

CounterSpec == CounterInit /\ [][CounterNext]_vars

----------------------------------------------------------------------------
(* The validators in use: a raw text token is drawn, and each validator    *)
(* is applied to it.                                                       *)

TokChars == {"0", "1", "9", "-", "+", " ", ",", "a"}

Tokens == Strs(TokChars, 0, MaxTokLen)

\* (min_range, max_range) given to integer_range.
Ranges == {<<0, 10>>, <<-1, 1>>, <<9, 11>>, <<5, 5>>, <<10, 0>>}

\* options given to comma_separated_enum_list.
OptionLists == {<<>>, <<<<"a">>>>, <<<<"a">>, <<"1">>>>}

ValInit ==
    /\ stacks = <<>>
    /\ err = <<>>
    /\ \E t \in Tokens : call = [op |-> "none", args |-> <<t>>]
    /\ ret = None

\* The token drawn.
Token == call.args[1]

PositiveInteger ==
    /\ call' = [op |-> "positive_integer", args |-> <<Token>>]
    /\ ret' = positive_integer(Token)
    /\ UNCHANGED <<stacks, err>>

NonnegativeInteger ==
    /\ call' = [op |-> "nonnegative_integer", args |-> <<Token>>]
    /\ ret' = nonnegative_integer(Token)
    /\ UNCHANGED <<stacks, err>>

IntegersList ==
    /\ call' = [op |-> "integers_list", args |-> <<Token>>]
    /\ ret' = integers_list(Token)
    /\ UNCHANGED <<stacks, err>>

\* integer_range(min_range, max_range)(token)
IntegerRange(min_range, max_range) ==
    /\ call' = [op |-> "integer_range", args |-> <<Token, min_range, max_range>>]
    /\ ret' = integer_range_check(min_range, max_range, Token)
    /\ UNCHANGED <<stacks, err>>

CommaSeparatedEnumList(options) ==
    /\ call' = [op |-> "comma_separated_enum_list", args |-> <<Token, options>>]
    /\ ret' = comma_separated_enum_list(options, Token)
    /\ UNCHANGED <<stacks, err>>

ValNext ==
    \/ PositiveInteger
    \/ NonnegativeInteger
    \/ IntegersList
    \/ \E r \in Ranges : IntegerRange(r[1], r[2])
    \/ \E options \in OptionLists : CommaSeparatedEnumList(options)

ValSpec == ValInit /\ [][ValNext]_vars

----------------------------------------------------------------------------
(* Vocabulary of the properties. *)

Chars(s) == {s[i] : i \in 1..Len(s)}

\* Every key holds at least one ";".
WellFormed(c) == \A i \in 1..Len(c) : ";" \in Chars(c[i].key)

\* sum(c.values())
RECURSIVE Total(_)
Total(c) == IF c = <<>> THEN 0 ELSE c[1].count + Total(Tail(c))

\* The place of the first ";" of a key that holds one.
FirstSemi(k) ==
    CHOOSE i \in 1..Len(k) : k[i] = ";" /\ \A j \in 1..(i - 1) : k[j] # ";"

\* The command name of a key: the text before its first ";".
CommOf(k) == SubSeq(k, 1, FirstSemi(k) - 1)

\* The rest of a key: the text after its first ";".
RestOf(k) == SubSeq(k, FirstSemi(k) + 1, Len(k))

\* The second semicolon-separated frame of a key.
SecondFrame(k) ==
    LET r == RestOf(k) IN
    IF ";" \in Chars(r) THEN CommOf(r) ELSE r

\* "[Profiling <what>: <reason>]"
Descriptor(what, reason) ==
    ProfilingText \o what \o <<":", " ">> \o reason \o <<"]">>

\* The container that ProfilingErrorStack(what, reason, comm) documents.
Built(what, reason, comm) ==
    <<Item(comm \o <<";">> \o Descriptor(what, reason), 1)>>

\* es is what some ProfilingErrorStack call of the model returned.
BuiltByConstructor(es) == \E p \in Constructed : p[2] = Ok(es)

Attached == call.op = "attach_error_to_stacks"

----------------------------------------------------------------------------
(* C1. For all non-empty what, reason and comm the constructor succeeds    *)
(* (its assertion does not fail); the result has exactly one entry, with   *)
(* key comm;[Profiling what: reason] and count 1, and is an error stack.   *)
C1_ConstructSucceeds ==
    call.op = "ProfilingErrorStack" =>
        /\ \A i \in 1..3 : call.args[i] # <<>>
        /\ ret.kind = "ok"
        /\ ret.value = Built(call.args[1], call.args[2], call.args[3])
        /\ is_error_stack(ret.value)

(* C2. With every source key holding a ";" and an error stack that         *)
(* satisfies is_error_stack, attach_error_to_stacks returns a container    *)
(* with as many entries as the source and the same counts: no two keys     *)
(* collapse, no count is lost or changed, and an empty source gives an     *)
(* empty result.                                                           *)
C2_AttachPreservesEntries ==
    (Attached /\ WellFormed(stacks) /\ is_error_stack(err)) =>
        /\ ret.kind = "ok"
        /\ Len(ret.value) = Len(stacks)
        /\ DistinctKeys(ret.value)
        /\ Total(ret.value) = Total(stacks)
        /\ \A i \in 1..Len(stacks) : ret.value[i].count = stacks[i].count
        /\ (stacks = <<>> => ret.value = <<>>)

C2_Witness ==
    /\ Attached /\ WellFormed(stacks) /\ is_error_stack(err)
    /\ Len(stacks) = 2 /\ stacks[1].count # stacks[2].count
    /\ ret.kind = "ok" /\ Len(ret.value) = 2

(* C3, as stated. For every error stack and every source entry             *)
(* (comm;rest, count) the result holds (comm;D;rest, count), D being the   *)
(* descriptor [Profiling what: reason] of the error stack, and D is the    *)
(* second semicolon-separated frame of every result key.                   *)
C3_DescriptorIsSecondFrame ==
    (Attached /\ WellFormed(stacks) /\ is_error_stack(err)) =>
        \A what \in Whats, reason \in Reasons, comm \in Comms :
            err = Built(what, reason, comm) =>
                /\ ret.kind = "ok"
                /\ Len(ret.value) = Len(stacks)
                /\ \A i \in 1..Len(stacks) :
                       /\ ret.value[i] =
                              Item(CommOf(stacks[i].key) \o <<";">>
                                       \o Descriptor(what, reason) \o <<";">>
                                       \o RestOf(stacks[i].key),
                                   stacks[i].count)
                       /\ SecondFrame(ret.value[i].key) = Descriptor(what, reason)

(* C3, amended. For every error stack that satisfies is_error_stack and    *)
(* every source entry (comm;rest, count) the result holds (comm;F;rest,    *)
(* count), F being all of the error stack's key after its first ";".  F is *)
(* the descriptor [Profiling what: reason], and the second frame of every  *)
(* result key, when the error stack's key is comm;[Profiling what: reason] *)
(* with no ";" in comm, what or reason.                                    *)
C3_ErrorFrameInserted ==
    (Attached /\ WellFormed(stacks) /\ is_error_stack(err)) =>
        /\ ret.kind = "ok"
        /\ Len(ret.value) = Len(stacks)
        /\ \A i \in 1..Len(stacks) :
               ret.value[i] =
                   Item(CommOf(stacks[i].key) \o <<";">>
                            \o RestOf(err[1].key) \o <<";">>
                            \o RestOf(stacks[i].key),
                        stacks[i].count)
        /\ \A what \in Whats, reason \in Reasons, comm \in Comms :
               (/\ err = Built(what, reason, comm)
                /\ ";" \notin (Chars(what) \cup Chars(reason) \cup Chars(comm)))
               => /\ RestOf(err[1].key) = Descriptor(what, reason)
                  /\ \A i \in 1..Len(stacks) :
                         SecondFrame(ret.value[i].key) = Descriptor(what, reason)

C3_Witness ==
    /\ Attached /\ ret.kind = "ok"
    /\ err = Built(<<"w">>, <<"r">>, <<"c">>)
    /\ Len(stacks) = 2
    /\ stacks[1].key = <<"d", ";", "f", ";", "g">>
    /\ ret.value[1].key =
           <<"d", ";">> \o Descriptor(<<"w">>, <<"r">>) \o <<";", "f", ";", "g">>

\* Key k is: any prefix, ";[Profiling ", one or more characters, ": ", one
\* or more characters, "]", then anything.
HasErrorShape(k) ==
    \E i, p, q \in 1..Len(k) :
        /\ i + 12 < p /\ p + 2 < q
        /\ SubSeq(k, i, i + 11) = <<";">> \o ProfilingText
        /\ SubSeq(k, p, p + 1) = <<":", " ">>
        /\ k[q] = "]"

(* C4. is_error_stack(stack) is true if and only if stack has exactly one  *)
(* entry and its key is any prefix, then ";[Profiling ", one or more       *)
(* characters, ": ", one or more characters and "]", then anything.        *)
C4_IsErrorStackIffShape ==
    call.op = "is_error_stack" =>
        (ret.value <=> (Len(err) = 1 /\ HasErrorShape(err[1].key)))

\* Some key of c holds no ";".
Malformed(c) == \E i \in 1..Len(c) : ";" \notin Chars(c[i].key)

(* C9. When some source key holds no ";", attach_error_to_stacks ends in   *)
(* an error and returns no container, wherever that key stands among the   *)
(* entries, and source_stacks and error_stack are left as they were.       *)
C9_MalformedKeyRaises ==
    [][ (call'.op = "attach_error_to_stacks" /\ Malformed(stacks)) =>
            /\ ret'.kind # "ok"
            /\ ret'.value = <<>>
            /\ stacks' = stacks
            /\ err' = err ]_vars

C9_Witness ==
    /\ Attached /\ is_error_stack(err)
    /\ Len(stacks) = 2
    /\ ";" \in Chars(stacks[1].key)
    /\ ";" \notin Chars(stacks[2].key)
    /\ ret.kind = "ValueError"

(* C10. For every non-empty source with well-formed keys that is not an    *)
(* error stack, and every error stack built by ProfilingErrorStack,        *)
(* is_error_stack of the attach result is false.                           *)
C10_AttachedIsNotErrorStack ==
    (/\ Attached /\ stacks # <<>> /\ WellFormed(stacks)
     /\ ~is_error_stack(stacks) /\ BuiltByConstructor(err)) =>
        /\ ret.kind = "ok"
        /\ ~is_error_stack(ret.value)

\* No count of container c is negative.
NonNegative(c) == \A i \in 1..Len(c) : c[i].count >= 0

\* The count container c holds for key k, 0 for a key it does not hold.
CountOf(c, k) ==
    IF \E i \in 1..Len(c) : c[i].key = k
    THEN (CHOOSE e \in {c[i] : i \in 1..Len(c)} : e.key = k).count
    ELSE 0

\* The call cl handed the container no negative amount.
SuppliedNonNegative(cl) ==
    /\ cl.op \in {"update", "setitem"} => cl.args[2] >= 0
    /\ cl.op = "merge" => NonNegative(cl.args[1])

(* C5, as stated. In every reachable state of a StackToSampleCount every   *)
(* count is non-negative: a negative increment is rejected, so no sequence *)
(* of increments, merges or assignments leaves a negative count stored.    *)
C5_CountsNeverNegative ==
    /\ NonNegative(stacks)
    /\ (Attached /\ ret.kind = "ok") => NonNegative(ret.value)

(* C5, amended. A StackToSampleCount rejects nothing: an increment adds    *)
(* the amount as given, negative or not, and an assignment stores the      *)
(* value as given.  The counts stay non-negative as long as no negative    *)
(* amount is handed to an increment, a merge or an assignment, and         *)
(* attach_error_to_stacks carries every count over as it is.               *)
C5_NegativeOnlyWhenSupplied ==
    [][ /\ (NonNegative(stacks) /\ SuppliedNonNegative(call'))
            => NonNegative(stacks')
        /\ call'.op = "update" =>
               \A k \in CounterKeys :
                   CountOf(stacks', k) =
                       CountOf(stacks, k)
                           + (IF k = call'.args[1] THEN call'.args[2] ELSE 0)
        /\ call'.op = "setitem" =>
               CountOf(stacks', call'.args[1]) = call'.args[2]
        /\ (call'.op = "attach_error_to_stacks" /\ ret'.kind = "ok") =>
               /\ Len(ret'.value) = Len(stacks)
               /\ \A i \in 1..Len(stacks) :
                      ret'.value[i].count = stacks[i].count ]_vars

C5_Witness ==
    /\ call.op = "update" /\ call.args[2] > 0
    /\ Len(stacks) = 2
    /\ NonNegative(stacks)
    /\ CountOf(stacks, call.args[1]) = MaxCount

Validators ==
    {"positive_integer", "nonnegative_integer", "integers_list",
     "integer_range", "comma_separated_enum_list"}

(* C6. Every validator has exactly two outcomes for every raw text token:  *)
(* it returns a typed value, or it signals the invalid-argument error      *)
(* (ArgumentTypeError); a non-numeric token is reported as that error and  *)
(* as no other kind of failure.                                            *)
C6_ValueOrArgumentTypeError ==
    call.op \in Validators => ret.kind \in {"ok", "ArgumentTypeError"}

(* C7. For a token that parses to an integer v, the validator returned by  *)
(* integer_range(min, max) returns v exactly when min <= v < max and       *)
(* signals the invalid-argument error otherwise: max itself is rejected,   *)
(* and with min >= max every such token is rejected.                       *)
C7_RangeIsHalfOpen ==
    (call.op = "integer_range" /\ int(Token).kind = "ok") =>
        LET v == int(Token).value
            lo == call.args[2]
            hi == call.args[3]
        IN  /\ (lo <= v /\ v < hi) => ret = Ok(v)
            /\ ~(lo <= v /\ v < hi) => ret.kind = "ArgumentTypeError"
            /\ lo >= hi => ret.kind = "ArgumentTypeError"

C7_Witness ==
    /\ call.op = "integer_range"
    /\ Token = <<"1", "0">> /\ call.args[2] = 0 /\ call.args[3] = 10
    /\ ret.kind = "ArgumentTypeError"

\* Text s holds text t as a run of consecutive characters.
Contains(s, t) ==
    \E i \in 0..(Len(s) - Len(t)) : SubSeq(s, i + 1, i + Len(t)) = t

\* The segments of the token that are no valid integer.
Offending ==
    LET segs == Split(Token, ",") IN
    {segs[i] : i \in {j \in 1..Len(segs) : int(segs[j]).kind # "ok"}}

\* The token's segments are all valid integers: integers_list returns them
\* parsed, in their order.
ListParsedInOrder ==
    LET segs == Split(Token, ",") IN
    Offending = {} =>
        /\ ret.kind = "ok"
        /\ Len(ret.value) = Len(segs)
        /\ \A i \in 1..Len(segs) : ret.value[i] = int(segs[i]).value

(* C8, as stated. integers_list returns the parsed integers in order when  *)
(* every segment is a valid integer, and otherwise fails with the          *)
(* invalid-argument error, whose message lists the offending raw text.     *)
C8_MessageListsOffendingText ==
    call.op = "integers_list" =>
        /\ ListParsedInOrder
        /\ Offending # {} =>
               /\ ret.kind = "ArgumentTypeError"
               /\ \E t \in Offending : Contains(ret.value, t)

(* C8, amended. integers_list returns the parsed integers in order when    *)
(* every segment is a valid integer, and otherwise fails with the          *)
(* invalid-argument error, whose message is one fixed usage text, the same *)
(* for every input: it does not list the offending raw text.               *)
C8_FixedUsageMessage ==
    call.op = "integers_list" =>
        /\ ListParsedInOrder
        /\ Offending # {} =>
               /\ ret.kind = "ArgumentTypeError"
               /\ ret.value = IntegersListText

C8_Witness ==
    /\ call.op = "integers_list"
    /\ Token = <<"1", ",", "a">>
    /\ ret.kind = "ArgumentTypeError"

====
